---- MODULE Spec2Model ----
(***************************************************************************)
(* A model of the TLSF (Two-Level Segregated Fit) allocator of tlsf-go.    *)
(*                                                                         *)
(* The backing region is modelled as a word memory: one entry per 8-byte   *)
(* word, addressed by its byte address.  Block headers, free-list links    *)
(* and client payloads all live in that memory, exactly as in the Go code, *)
(* where they are reached through unsafe pointer arithmetic.  A word that  *)
(* is zero is not stored (arena.MakeSlice returns zeroed memory).          *)
(*                                                                         *)
(* Field offsets of a block header at address b (tlsf.go, lines 79-95):    *)
(*    b + 0   prevHeader   *BlockHeader                                    *)
(*    b + 8   blockSize    size | status flags                             *)
(*    b + 16  prev         *FreeBlockHeader  (overlays the payload)        *)
(*    b + 24  next         *FreeBlockHeader  (overlays the payload)        *)
(*                                                                         *)
(* An access outside the backing region, and an index outside the matrix  *)
(* or the bitmaps, ends the run: the variable fault becomes TRUE and no    *)
(* operation is taken afterwards.                                          *)
(***************************************************************************)
EXTENDS Integers, FiniteSets, Sequences, TLC

\* ------------------------------------------------------------------------
\* Program constants (src/unnamed/part_000, lines 3-45)
\* ------------------------------------------------------------------------
MaxFLI == 30
MaxLog2SLI == 5
MaxSLI == 32
FLIOffset == 6
RealFLI == 24
FreeBlock == 1
UsedBlock == 0
PreviousBlockFree == 2
PreviousBlockUsed == 0
PtrMask == 7
BlockAlign == 16
MemAlign == 15
BlockHeaderSize == 16
MinBlockSize == 16
SmallBlockSize == 128

\* nil pointer
nil == 0

\* The address of the first byte of the backing region (tlsf.head).
HeadAddr == 4096

\* ------------------------------------------------------------------------
\* Bounds of the model
\* ------------------------------------------------------------------------
\* how many operations the client performs per run
MaxOps == 7

\* how many records the client may store into payloads it owns, per run
MaxStores == 2

\* the region lengths NewArena is called with: a small region that a few
\* calls exhaust, and the 32K region of the package's example
ArenaSizes == {176, 32768}

\* the sizes Allocate is called with on the small region
AllocSizes == {1, 32, 40, 144}

\* the 16-byte records a client stores into its payloads, as two words: one
\* reads as the header of a free block of size 0, the other as a header whose
\* PreviousBlockFree flag is set and whose prevHeader is the region's base
StoreRecords == {<<nil, FreeBlock>>, <<HeadAddr, PreviousBlockFree>>}

\* ------------------------------------------------------------------------
\* Bit primitives (src/unnamed/part_000, lines 47-132)
\* ------------------------------------------------------------------------
Pow2(k) == 2 ^ k

\* uint32(n).  Every word of the model lies in 0 .. 2^31 - 1 (the integers
\* of TLC), where the conversion changes nothing.
U32(n) == n

\* w & ^mask for a mask of the form 2^k - 1 (two's complement, any sign of w)
ClearLow(w, k) == w - (w % Pow2(k))

\* the lookup table: table[0] = -1, table[x] = floor(log2 x)
table == [x \in 0..255 |->
            IF x = 0 THEN -1
            ELSE CHOOSE k \in 0..7 : Pow2(k) <= x /\ x < Pow2(k + 1)]

roundUp(size) == ClearLow(size + MemAlign, 4)

roundDown(size) == ClearLow(size, 4)

msb(n) ==
    LET x == U32(n)
        a == IF x <= 65535
               THEN (IF x <= 255 THEN 0 ELSE 8)
               ELSE (IF x <= 16777215 THEN 16 ELSE 24)
    IN  table[x \div Pow2(a)] + a

\* A uint32 word of the bitmaps is held as the set of the positions of its
\* 1 bits (bit 31 set is a value the integers of TLC do not reach): the word
\* is 0 exactly when the set is empty.
\*
\* lsb on such a word: x & -x keeps the lowest 1 bit, the table and the
\* offset a give its position; -1 for 0 (table[0] = -1).
lsb(w) ==
    IF w = {} THEN table[0]
    ELSE CHOOSE i \in w : \A j \in w : i <= j

\* the new value of the word w
setBit(nr, w) == w \cup {nr % 32}

clearBit(nr, w) == w \ {nr % 32}

\* ------------------------------------------------------------------------
\* Size-class mapping (src/unnamed/part_000, lines 134-162)
\* ------------------------------------------------------------------------
determineLevels(size) ==
    IF size < SmallBlockSize
      THEN [fl |-> 0, sl |-> size \div (SmallBlockSize \div MaxSLI)]
      ELSE LET m == msb(size)
           IN  [fl |-> m - FLIOffset,
                sl |-> (size \div Pow2(m - MaxLog2SLI)) - MaxSLI]

\* selectLevelsAndSize without the final *size &= ^t
selectLevelsAndSizeUnmasked(size) ==
    IF size < SmallBlockSize
      THEN [size |-> size, fl |-> 0,
            sl |-> size \div (SmallBlockSize \div MaxSLI)]
      ELSE LET k  == msb(size) - MaxLog2SLI
               t  == Pow2(k) - 1
               s1 == size + t
               m  == msb(s1)
           IN  [size |-> s1,
                fl   |-> m - FLIOffset,
                sl   |-> (s1 \div Pow2(m - MaxLog2SLI)) - MaxSLI]

selectLevelsAndSize(size) ==
    IF size < SmallBlockSize
      THEN [size |-> size, fl |-> 0,
            sl |-> size \div (SmallBlockSize \div MaxSLI)]
      ELSE LET k  == msb(size) - MaxLog2SLI
               t  == Pow2(k) - 1
               s1 == size + t
               m  == msb(s1)
           IN  [size |-> ClearLow(s1, k),
                fl   |-> m - FLIOffset,
                sl   |-> (s1 \div Pow2(m - MaxLog2SLI)) - MaxSLI]

\* ------------------------------------------------------------------------
\* Words: the bit operations of Go on non-negative int64 values
\* ------------------------------------------------------------------------
RECURSIVE BitAnd(_, _)
BitAnd(a, b) ==
    IF a = 0 \/ b = 0 THEN 0
    ELSE (a % 2) * (b % 2) + 2 * BitAnd(a \div 2, b \div 2)

\* a | b
BitOr(a, b) == a + b - BitAnd(a, b)

\* a &^ b  (also a & ^b)
BitAndNot(a, b) == a - BitAnd(a, b)

\* ------------------------------------------------------------------------
\* The allocator state as one value t: the fields of TLSFArena
\* (tlsf.go, lines 57-76) together with the backing region they point into.
\*   t.mem        the non-zero words of the region, by byte address
\*   t.len        the length of the region in bytes (allocationBytes)
\*   t.fault      an access outside the region or an index out of range
\*                has happened
\* ------------------------------------------------------------------------
FLRange == 0..(RealFLI - 1)
SLRange == 0..(MaxSLI - 1)

\* the word at address p can be accessed
Valid(t, p) == p % 8 = 0 /\ p >= t.head /\ p + 8 <= t.head + t.len

Fault(t) == [t EXCEPT !.fault = TRUE]

\* the state after the word at p has been accessed
Touch(t, p) == IF t.fault \/ Valid(t, p) THEN t ELSE Fault(t)

\* the word at address p
Rd(t, p) == IF p \in DOMAIN t.mem THEN t.mem[p] ELSE 0

\* the state after v has been written to the word at p
Wr(t, p, v) ==
    IF t.fault THEN t
    ELSE IF ~Valid(t, p) THEN Fault(t)
    ELSE IF v = 0
      THEN [t EXCEPT !.mem = [x \in (DOMAIN t.mem) \ {p} |-> t.mem[x]]]
      ELSE [t EXCEPT !.mem = [x \in (DOMAIN t.mem) \cup {p} |->
                                 IF x = p THEN v ELSE t.mem[x]]]

\* the fields of the header at address b
prevHeaderAt(b) == b
blockSizeAt(b) == b + 8
prevAt(b) == b + 16
nextAt(b) == b + 24

\* the matrix and the bitmaps can be indexed by (fl, sl)
InMatrix(fl, sl) == fl \in FLRange /\ sl \in SLRange

\* t.matrix[fl][sl]; only the heads that are not nil are stored
MatrixAt(t, fl, sl) ==
    IF <<fl, sl>> \in DOMAIN t.matrix THEN t.matrix[<<fl, sl>>] ELSE nil

\* t.matrix[fl][sl] = v
SetMatrix(t, fl, sl, v) ==
    IF t.fault THEN t
    ELSE IF ~InMatrix(fl, sl) THEN Fault(t)
    ELSE IF v = nil
      THEN [t EXCEPT !.matrix =
                [c \in (DOMAIN t.matrix) \ {<<fl, sl>>} |-> t.matrix[c]]]
      ELSE [t EXCEPT !.matrix =
                [c \in (DOMAIN t.matrix) \cup {<<fl, sl>>} |->
                    IF c = <<fl, sl>> THEN v ELSE t.matrix[c]]]

\* ------------------------------------------------------------------------
\* Block header methods (tlsf.go, lines 101-131)
\* ------------------------------------------------------------------------
getPtr(b) == b + BlockHeaderSize

setBlockStatus(t, b, bs) ==
    Wr(Touch(t, blockSizeAt(b)), blockSizeAt(b),
       BitOr(Rd(t, blockSizeAt(b)), bs))

\* blockSize & BlockSize, where BlockSize = 0xFFFFFFFF - PtrMask: on a word
\* below 2^31 the mask clears the three low bits
getBlockSize(t, b) == BitAndNot(Rd(t, blockSizeAt(b)), PtrMask)

isFree(t, b) == BitAnd(Rd(t, blockSizeAt(b)), FreeBlock) = FreeBlock

isPreviousBlockFree(t, b) ==
    BitAnd(Rd(t, blockSizeAt(b)), PreviousBlockFree) = PreviousBlockFree

\* ------------------------------------------------------------------------
\* Used-size accounting (tlsf.go, lines 264-278)
\* ------------------------------------------------------------------------
UsedSize(t) == t.usedSize

addSize(t, b) ==
    LET t1 == Touch(t, blockSizeAt(b))
    IN  IF t1.fault THEN t1
        ELSE [t1 EXCEPT !.usedSize = @ + getBlockSize(t1, b) + BlockHeaderSize]

removeSize(t, b) ==
    LET t1 == Touch(t, blockSizeAt(b))
    IN  IF t1.fault THEN t1
        ELSE [t1 EXCEPT !.usedSize = @ - (getBlockSize(t1, b) + BlockHeaderSize)]

\* ------------------------------------------------------------------------
\* Free-list matrix (tlsf.go, lines 281-327)
\* ------------------------------------------------------------------------
\* the bitmap updates of extractBlockHdr when the list has become empty
ClearBitsHdr(t, fl, sl) ==
    LET s1 == clearBit(sl, t.slBitmap[fl])
    IN  [t EXCEPT !.slBitmap[fl] = s1,
                  !.flBitmap = IF s1 = {} THEN clearBit(fl, @) ELSE @]

extractBlockHdr(t, b, fl, sl) ==
    LET \* t.matrix[fl][sl] = b.next
        SetHead(u) == SetMatrix(u, fl, sl, Rd(u, nextAt(b)))
        \* the new head's prev, or the bitmaps when there is no new head
        FixHead(u) ==
            IF u.fault THEN u
            ELSE IF MatrixAt(u, fl, sl) # nil
              THEN Wr(u, prevAt(MatrixAt(u, fl, sl)), nil)
              ELSE ClearBitsHdr(u, fl, sl)
        \* b.prev = nil; b.next = nil
        Unlink(u) == Wr(Wr(u, prevAt(b), nil), nextAt(b), nil)
    IN  Unlink(FixHead(SetHead(Touch(t, nextAt(b)))))

insertBlock(t, b, fl, sl) ==
    LET \* b.prev = t.matrix[fl][sl]
        SetPrev(u) ==
            IF InMatrix(fl, sl) THEN Wr(u, prevAt(b), MatrixAt(u, fl, sl))
            ELSE Fault(u)
        \* if t.matrix[fl][sl] != nil: t.matrix[fl][sl].prev = b
        LinkHead(u) ==
            IF MatrixAt(u, fl, sl) # nil
              THEN Wr(u, prevAt(MatrixAt(u, fl, sl)), b)
              ELSE u
        SetBits(u) ==
            IF u.fault THEN u
            ELSE [u EXCEPT !.slBitmap[fl] = setBit(sl, @),
                           !.flBitmap = setBit(fl, @)]
    IN  SetBits(SetMatrix(LinkHead(SetPrev(Wr(t, prevAt(b), nil))),
                          fl, sl, b))

\* the bitmap updates of extractBlock when b was the head and the new head
\* is not nil
ClearBitsBlock(t, fl, sl) ==
    LET s1 == clearBit(sl, t.slBitmap[fl])
    IN  [t EXCEPT !.slBitmap[fl] = s1,
                  !.flBitmap = IF s1 # {} THEN clearBit(fl, @) ELSE @]

extractBlock(t, b, fl, sl) ==
    LET \* if b.next != nil: b.next.prev = b.prev
        FixNext(u) ==
            IF Rd(u, nextAt(b)) # nil
              THEN Wr(Touch(u, prevAt(b)), prevAt(Rd(u, nextAt(b))),
                      Rd(u, prevAt(b)))
              ELSE u
        \* if b.prev != nil: b.prev.next = b.next
        FixPrev(u) ==
            IF Rd(u, prevAt(b)) # nil
              THEN Wr(Touch(u, nextAt(b)), nextAt(Rd(u, prevAt(b))),
                      Rd(u, nextAt(b)))
              ELSE u
        \* after t.matrix[fl][sl] = b.next: the bitmaps
        NewHead(u) ==
            IF u.fault THEN u
            ELSE IF MatrixAt(u, fl, sl) # nil THEN ClearBitsBlock(u, fl, sl)
            ELSE u
        \* if t.matrix[fl][sl] == b
        FixHead(u) ==
            IF u.fault THEN u
            ELSE IF ~InMatrix(fl, sl) THEN Fault(u)
            ELSE IF MatrixAt(u, fl, sl) = b
              THEN NewHead(SetMatrix(Touch(u, nextAt(b)), fl, sl,
                                     Rd(u, nextAt(b))))
              ELSE u
        \* b.prev = nil; b.next = nil
        Unlink(u) == Wr(Wr(u, prevAt(b), nil), nextAt(b), nil)
    IN  Unlink(FixHead(FixPrev(Touch(FixNext(Touch(t, nextAt(b))),
                                     prevAt(b)))))

\* ------------------------------------------------------------------------
\* findSuitableBlock (src/unnamed/part_000, lines 166-186)
\* The result: the block b (nil if none), the class (fl, sl) it was found
\* in, and whether an index was out of range.
\* ------------------------------------------------------------------------
\* w & (^0 << k): the bits of the bitmap word w at or above position k
BitsFrom(w, k) == {i \in w : i >= k}

findSuitableBlock(t, fl, sl) ==
    IF fl \notin FLRange
      THEN [b |-> nil, fl |-> fl, sl |-> sl, panic |-> TRUE]
    ELSE
      LET tmp == BitsFrom(t.slBitmap[fl], sl)
      IN  IF tmp # {}
            THEN LET sl1 == lsb(tmp)
                 IN  [b |-> MatrixAt(t, fl, sl1), fl |-> fl, sl |-> sl1,
                      panic |-> FALSE]
            ELSE LET fl1 == lsb(BitsFrom(t.flBitmap, fl + 1))
                 IN  IF fl1 > 0
                       THEN IF fl1 \notin FLRange
                              THEN [b |-> nil, fl |-> fl1, sl |-> sl,
                                    panic |-> TRUE]
                            ELSE LET sl1 == lsb(t.slBitmap[fl1])
                                 IN  IF sl1 \notin SLRange
                                       THEN [b |-> nil, fl |-> fl1,
                                             sl |-> sl1, panic |-> TRUE]
                                       ELSE [b |-> MatrixAt(t, fl1, sl1),
                                             fl |-> fl1, sl |-> sl1,
                                             panic |-> FALSE]
                       ELSE [b |-> nil, fl |-> fl1, sl |-> sl,
                             panic |-> FALSE]

\* ------------------------------------------------------------------------
\* Allocate (tlsf.go, lines 172-220)
\* The result: the state afterwards, the pointer returned and the error.
\* ------------------------------------------------------------------------
ErrBlockNotFound == "failed to allocate block"
NoError == "nil"

\* lines 175-179: the request rounded to a multiple of 16, at least 16
NormalizeSize(size) == IF size < MinBlockSize THEN MinBlockSize ELSE roundUp(size)

\* lines 198-210: divide the block b, the remainder becomes the free block b2
SplitBlock(t, b, nb, size, tmpSize) ==
    LET rest == tmpSize - BlockHeaderSize
        b2   == getPtr(b) + size
        lv   == determineLevels(rest)
        \* b2.blockSize = tmpSize; b2.setBlockStatus(..); nb.prevHeader = b2
        MakeRest(u) ==
            Wr(setBlockStatus(Wr(u, blockSizeAt(b2), rest), b2,
                              BitOr(PreviousBlockUsed, FreeBlock)),
               prevHeaderAt(nb), b2)
        \* b.blockSize = size | (b.blockSize & 0x2)
        SetSize(u) ==
            Wr(Touch(u, blockSizeAt(b)), blockSizeAt(b),
               BitOr(size, BitAnd(Rd(u, blockSizeAt(b)), 2)))
    IN  SetSize(insertBlock(MakeRest(t), b2, lv.fl, lv.sl))

\* lines 212-214: hand out the whole block b
UseWholeBlock(t, b, nb) ==
    LET \* h.blockSize &= ^flag
        ClearFlag(u, h, flag) ==
            Wr(Touch(u, blockSizeAt(h)), blockSizeAt(h),
               BitAndNot(Rd(u, blockSizeAt(h)), flag))
    IN  ClearFlag(ClearFlag(t, nb, PreviousBlockFree), b, FreeBlock)

\* Allocate with the accounting done before the search has succeeded
AllocateCountsBeforeSearch(t, reqSize) ==
    LET sel == selectLevelsAndSize(NormalizeSize(reqSize))
        \* lines 193-217: use the free block b, already off its list
        Use(u, b) ==
            LET nb      == getPtr(b) + getBlockSize(u, b)
                tmpSize == getBlockSize(u, b) - sel.size
            IN  addSize(IF tmpSize >= BlockHeaderSize
                          THEN SplitBlock(u, b, nb, sel.size, tmpSize)
                          ELSE UseWholeBlock(u, b, nb),
                        b)
        \* lines 185-219, f the result of findSuitableBlock
        Found(f) ==
            IF f.panic THEN [t |-> Fault(t), ptr |-> nil, err |-> NoError]
            ELSE IF f.b = nil
              THEN [t |-> [t EXCEPT !.usedSize =
                              @ + sel.size + BlockHeaderSize], ptr |-> nil, err |-> ErrBlockNotFound]
            ELSE [t   |-> Use(Touch(extractBlockHdr(t, f.b, f.fl, f.sl),
                                    blockSizeAt(f.b)), f.b),
                  ptr |-> getPtr(f.b),
                  err |-> NoError]
    IN  Found(findSuitableBlock(t, sel.fl, sel.sl))

Allocate(t, reqSize) ==
    LET sel == selectLevelsAndSize(NormalizeSize(reqSize))
        \* lines 193-217: use the free block b, already off its list
        Use(u, b) ==
            LET nb      == getPtr(b) + getBlockSize(u, b)
                tmpSize == getBlockSize(u, b) - sel.size
            IN  addSize(IF tmpSize >= BlockHeaderSize
                          THEN SplitBlock(u, b, nb, sel.size, tmpSize)
                          ELSE UseWholeBlock(u, b, nb),
                        b)
        \* lines 185-219, f the result of findSuitableBlock
        Found(f) ==
            IF f.panic THEN [t |-> Fault(t), ptr |-> nil, err |-> NoError]
            ELSE IF f.b = nil
              THEN [t |-> t, ptr |-> nil, err |-> ErrBlockNotFound]
            ELSE [t   |-> Use(Touch(extractBlockHdr(t, f.b, f.fl, f.sl),
                                    blockSizeAt(f.b)), f.b),
                  ptr |-> getPtr(f.b),
                  err |-> NoError]
    IN  Found(findSuitableBlock(t, sel.fl, sel.sl))

\* ------------------------------------------------------------------------
\* Free (tlsf.go, lines 228-255)
\* ------------------------------------------------------------------------
\* line 239: the header Free inspects as the neighbour of b
NeighbourOf(t, b) == b + getBlockSize(t, b)

\* lines 240-245
MergeNext(t, b, nb) ==
    LET \* b.blockSize += nb.getBlockSize() + BlockHeaderSize
        Grow(u) ==
            Wr(Touch(Touch(u, blockSizeAt(nb)), blockSizeAt(b)),
               blockSizeAt(b),
               Rd(u, blockSizeAt(b)) + getBlockSize(u, nb) + BlockHeaderSize)
        Merge(u) ==
            LET lv == determineLevels(getBlockSize(u, nb))
            IN  Grow(extractBlock(u, nb, lv.fl, lv.sl))
        \* if nb.isFree()
        Check(u) == IF u.fault \/ ~isFree(u, nb) THEN u ELSE Merge(u)
    IN  Check(Touch(t, blockSizeAt(nb)))

\* lines 246-252: the state afterwards and the block to insert
MergePrev(t, b, nb) ==
    LET \* pfb.blockSize += b.getBlockSize() + BlockHeaderSize
        Grow(u, pfb) ==
            Wr(Touch(Touch(u, blockSizeAt(b)), blockSizeAt(pfb)),
               blockSizeAt(pfb),
               Rd(u, blockSizeAt(pfb)) + getBlockSize(u, b) + BlockHeaderSize)
        Merge(u, pfb) ==
            LET lv == determineLevels(getBlockSize(u, pfb))
            IN  [t |-> Grow(extractBlock(Touch(u, blockSizeAt(pfb)), pfb,
                                         lv.fl, lv.sl), pfb),
                 b |-> pfb]
        \* if nb.isPreviousBlockFree(): pfb = nb.prevHeader
        Check(u) ==
            IF u.fault \/ ~isPreviousBlockFree(u, nb) THEN [t |-> u, b |-> b]
            ELSE Merge(Touch(u, prevHeaderAt(nb)), Rd(u, prevHeaderAt(nb)))
    IN  Check(Touch(t, blockSizeAt(nb)))

\* lines 229-252: Free up to the call of insertBlock; the state reached and
\* the block that is about to be inserted
FreeBeforeInsert(t, ptr) ==
    LET b == ptr - BlockHeaderSize
        \* b.prev = nil; b.next = nil
        Clear(u) == Wr(Wr(u, prevAt(b), nil), nextAt(b), nil)
        \* nb, then the two merges
        Merge(u) ==
            MergePrev(MergeNext(u, b, NeighbourOf(u, b)), b, NeighbourOf(u, b))
    IN  Merge(Clear(removeSize(setBlockStatus(t, b, FreeBlock), b)))

Free(t, ptr) ==
    LET \* determineLevels(b.getBlockSize()); t.insertBlock(b, fl, sl)
        Insert(m) ==
            LET lv == determineLevels(getBlockSize(m.t, m.b))
            IN  insertBlock(Touch(m.t, blockSizeAt(m.b)), m.b, lv.fl, lv.sl)
    IN  Insert(FreeBeforeInsert(t, ptr))

\* ------------------------------------------------------------------------
\* NewArena (tlsf.go, lines 134-161)
\* ------------------------------------------------------------------------
\* lines 137-141: the zeroed region and the empty TLSFArena
EmptyArena(allocationBytes) ==
    [mem      |-> << >>,
     len      |-> allocationBytes,
     head     |-> HeadAddr,
     flBitmap |-> {},
     slBitmap |-> [fl \in FLRange |-> {}],
     matrix   |-> << >>,
     usedSize |-> 0,
     fault    |-> FALSE]

NewArena(allocationBytes) ==
    LET b == HeadAddr
        \* 2. the initial block
        FirstBlock(u) ==
            setBlockStatus(
                Wr(u, blockSizeAt(b),
                   roundDown(allocationBytes - 2 * BlockHeaderSize)),
                b, BitOr(PreviousBlockUsed, FreeBlock))
        \* 3. the last block
        LastBlock(u, lb) ==
            Wr(setBlockStatus(u, lb, BitOr(PreviousBlockFree, UsedBlock)),
               prevHeaderAt(lb), b)
        Last(u) == LastBlock(u, getPtr(b) + getBlockSize(u, b))
        \* tlsf.usedSize = allocationBytes - b.getBlockSize()
        SetUsed(u) ==
            IF u.fault THEN u
            ELSE [u EXCEPT !.usedSize = allocationBytes - getBlockSize(u, b)]
    IN  SetUsed(Free(Last(FirstBlock(EmptyArena(allocationBytes))),
                     getPtr(b)))

\* ------------------------------------------------------------------------
\* The state machine: one arena and a client that allocates, stores into
\* the payloads it owns, and frees.
\* ------------------------------------------------------------------------
VARIABLES
    mem,              \* the backing region: its non-zero words, by address
    allocationBytes,  \* the length of the backing region
    head,             \* TLSFArena.head
    flBitmap,         \* TLSFArena.flBitmap
    slBitmap,         \* TLSFArena.slBitmap
    matrix,           \* TLSFArena.matrix
    usedSize,         \* TLSFArena.usedSize
    fault,            \* the program has crashed
    live,             \* the client's live allocations: pointer -> requested size
    stores,           \* how many records the client has stored so far
    ops,              \* how many operations the client has performed so far
    phase,            \* the shape of the run so far, see NextPhase
    last              \* the last operation: its argument and its results

vars == <<mem, allocationBytes, head, flBitmap, slBitmap, matrix, usedSize,
          fault, live, stores, ops, phase, last>>

\* the allocator's own variables
arenaVars == <<mem, allocationBytes, head, flBitmap, slBitmap, matrix,
               usedSize, fault>>

\* the current state as one value
T == [mem      |-> mem,
      len      |-> allocationBytes,
      head     |-> head,
      flBitmap |-> flBitmap,
      slBitmap |-> slBitmap,
      matrix   |-> matrix,
      usedSize |-> usedSize,
      fault    |-> fault]

Install(t) ==
    /\ mem' = t.mem
    /\ allocationBytes' = t.len
    /\ head' = t.head
    /\ flBitmap' = t.flBitmap
    /\ slBitmap' = t.slBitmap
    /\ matrix' = t.matrix
    /\ usedSize' = t.usedSize
    /\ fault' = t.fault

NoBlock == [size |-> 0, fl |-> 0, sl |-> 0]

Init ==
    LET Start(t, n) ==
            /\ mem = t.mem
            /\ allocationBytes = t.len
            /\ head = t.head
            /\ flBitmap = t.flBitmap
            /\ slBitmap = t.slBitmap
            /\ matrix = t.matrix
            /\ usedSize = t.usedSize
            /\ fault = t.fault
            /\ live = << >>
            /\ stores = 0
            /\ ops = 0
            /\ phase = "allocating"
            /\ last = [op |-> "NewArena", arg |-> n, ptr |-> nil,
                       err |-> NoError, req |-> NoBlock, taken |-> NoBlock]
    IN  \E n \in ArenaSizes : Start(NewArena(n), n)

\* The shape of a run: "allocating" while it consists of successful Allocate
\* calls only, "freeing" once Free calls have followed them and nothing else,
\* "mixed" for every other run.
NextPhase(op, ok) ==
    IF op = "Allocate" /\ ok /\ phase = "allocating" THEN "allocating"
    ELSE IF op = "Free" /\ phase \in {"allocating", "freeing"} THEN "freeing"
    ELSE "mixed"

\* what Allocate(size) searches for, and the block it takes from the lists
RequestOf(size) == selectLevelsAndSize(NormalizeSize(size))

TakenBy(t, size) ==
    LET sel == RequestOf(size)
        Taken(f) ==
            IF f.panic \/ f.b = nil THEN NoBlock
            ELSE [size |-> getBlockSize(t, f.b), fl |-> f.fl, sl |-> f.sl]
    IN  Taken(findSuitableBlock(t, sel.fl, sel.sl))

AllocateOp(size) ==
    LET Returned(r) ==
            /\ Install(r.t)
            /\ live' = IF r.ptr # nil /\ ~r.t.fault
                         THEN [p \in (DOMAIN live) \cup {r.ptr} |->
                                  IF p = r.ptr THEN size ELSE live[p]]
                         ELSE live
            /\ last' = [op |-> "Allocate", arg |-> size, ptr |-> r.ptr,
                        err |-> r.err, req |-> RequestOf(size),
                        taken |-> TakenBy(T, size)]
            /\ phase' = NextPhase("Allocate", r.ptr # nil /\ ~r.t.fault)
    IN  /\ ~fault
        /\ ops < MaxOps
        /\ ops' = ops + 1
        /\ Returned(Allocate(T, size))
        /\ UNCHANGED stores

FreeOp(ptr) ==
    /\ ~fault
    /\ ops < MaxOps
    /\ ops' = ops + 1
    /\ ptr \in DOMAIN live
    /\ Install(Free(T, ptr))
    /\ live' = [p \in (DOMAIN live) \ {ptr} |-> live[p]]
    /\ last' = [op |-> "Free", arg |-> ptr, ptr |-> nil, err |-> NoError,
                req |-> NoBlock, taken |-> NoBlock]
    /\ phase' = NextPhase("Free", TRUE)
    /\ UNCHANGED stores

\* The client stores the 16-byte record rec into the last 16 bytes of what
\* it asked for at ptr.
StoreOp(ptr, rec) ==
    /\ ~fault
    /\ ops < MaxOps
    /\ ops' = ops + 1
    /\ stores < MaxStores
    /\ ptr \in DOMAIN live
    /\ live[ptr] >= 16 /\ live[ptr] % 8 = 0
    /\ Install(Wr(Wr(T, ptr + live[ptr] - 16, rec[1]),
                  ptr + live[ptr] - 8, rec[2]))
    /\ stores' = stores + 1
    /\ last' = [op |-> "Store", arg |-> ptr, ptr |-> nil,
                err |-> NoError, req |-> NoBlock, taken |-> NoBlock]
    /\ phase' = NextPhase("Store", TRUE)
    /\ UNCHANGED live

\* the sizes Allocate is called with on a region of n bytes; on the 32K
\* region: the example's 460 and the initial block's size less 16
SizesFor(n) ==
    IF n < 1024 THEN AllocSizes
    ELSE {460, roundDown(n - 2 * BlockHeaderSize) - BlockHeaderSize}

Next ==
    \/ \E size \in SizesFor(allocationBytes) : AllocateOp(size)
    \/ \E ptr \in DOMAIN live : FreeOp(ptr)
    \/ \E ptr \in DOMAIN live : \E rec \in StoreRecords : StoreOp(ptr, rec)

Spec == Init /\ [][Next]_vars

\* ------------------------------------------------------------------------
\* Views of the region used to state the properties
\* ------------------------------------------------------------------------
\* the size of the initial free block (tlsf.go, line 147)
InitialBlockSize == roundDown(allocationBytes - 2 * BlockHeaderSize)

\* the address of the last block's header, the sentinel (tlsf.go, line 151)
SentinelAddr == head + BlockHeaderSize + InitialBlockSize

\* the header that follows the block at b: payload pointer + size
NextPhysical(b) == getPtr(b) + getBlockSize(T, b)

\* the headers visited from b by stepping to the next physical header, up to
\* the sentinel
RECURSIVE ChainFrom(_)
ChainFrom(b) ==
    IF b >= SentinelAddr THEN << >>
    ELSE <<b>> \o ChainFrom(NextPhysical(b))

\* the blocks of the region before the sentinel, in address order
PhysBlocks == ChainFrom(head)

\* where the walk over the region ends
ChainEnd ==
    IF PhysBlocks = << >> THEN head
    ELSE NextPhysical(PhysBlocks[Len(PhysBlocks)])

\* the pairs (a, b) of physically adjacent blocks, the sentinel included
AdjacentPairs ==
    {<<PhysBlocks[i], NextPhysical(PhysBlocks[i])>> : i \in 1..Len(PhysBlocks)}

\* the blocks linked behind h through next, h included
RECURSIVE ListFrom(_, _)
ListFrom(h, seen) ==
    IF h = nil \/ h \in seen \/ ~Valid(T, nextAt(h)) THEN seen
    ELSE ListFrom(Rd(T, nextAt(h)), seen \cup {h})

\* the members of the free list of class (fl, sl)
ListOf(fl, sl) == ListFrom(MatrixAt(T, fl, sl), {})

Classes == FLRange \X SLRange

\* block size + header, of the block whose header is at b
Footprint(b) == getBlockSize(T, b) + BlockHeaderSize

\* the sum of Footprint over a set of headers
RECURSIVE FootprintSum(_)
FootprintSum(S) ==
    IF S = {} THEN 0
    ELSE LET x == CHOOSE y \in S : TRUE
         IN  Footprint(x) + FootprintSum(S \ {x})

\* the headers of the client's live allocations
LiveHeaders == {p - BlockHeaderSize : p \in DOMAIN live}

\* the blocks of the region whose FREE flag is set
FreeInRegion ==
    {PhysBlocks[i] : i \in {j \in 1..Len(PhysBlocks) : isFree(T, PhysBlocks[j])}}

\* the classes whose list holds the block b
ListsHolding(b) == {c \in Classes : b \in ListOf(c[1], c[2])}

\* ------------------------------------------------------------------------
\* Properties
\* ------------------------------------------------------------------------

\* C1: after NewArena(n) and any sequence of Allocate and Free calls on live
\* pointers, UsedSize() equals the construction overhead (n minus the size of
\* the initial free block) plus the sum of (block size + 16) over the live
\* allocations.
C1_UsedSizeAccounting ==
    ~fault =>
        usedSize = (allocationBytes - InitialBlockSize)
                      + FootprintSum(LiveHeaders)

\* C2: after successful Allocate calls on a fresh arena followed by Free of
\* every returned pointer, the state is the post-construction state: one free
\* block of the initial size, one bit set in flBitmap and one in slBitmap (the
\* class of that block), and usedSize back to its post-construction value.
C2_FreeAllRestoresInitialState ==
    (~fault /\ phase = "freeing" /\ DOMAIN live = {}) =>
        LET lv == determineLevels(InitialBlockSize)
        IN  /\ PhysBlocks = <<head>>
            /\ isFree(T, head)
            /\ getBlockSize(T, head) = InitialBlockSize
            /\ flBitmap = {lv.fl}
            /\ \A fl \in FLRange :
                   slBitmap[fl] = IF fl = lv.fl THEN {lv.sl} ELSE {}
            /\ DOMAIN matrix = {<<lv.fl, lv.sl>>}
            /\ MatrixAt(T, lv.fl, lv.sl) = head
            /\ usedSize = allocationBytes - InitialBlockSize

\* C3: whenever Allocate(n) returns a pointer, the block taken from the free
\* lists has size >= the class-rounded request, and the payload handed out is
\* at least max(16, roundUp(n)) >= n bytes.
C3_AllocatedBlockIsBigEnough ==
    (~fault /\ last.op = "Allocate" /\ last.ptr # nil) =>
        /\ last.taken.size >= last.req.size
        /\ getBlockSize(T, last.ptr - BlockHeaderSize)
              >= NormalizeSize(last.arg)
        /\ NormalizeSize(last.arg) >= last.arg

\* C4: when Allocate returns ErrBlockNotFound, the allocator state is the
\* state just before the call: flBitmap, slBitmap, matrix, every word of the
\* region and usedSize are unchanged.
C4_FailedAllocateChangesNothing ==
    [][(ops' = ops + 1 /\ last'.op = "Allocate"
            /\ last'.err = ErrBlockNotFound)
          => UNCHANGED arenaVars]_vars

\* a failed Allocate has just returned
C4_Witness ==
    ~fault /\ last.op = "Allocate" /\ last.err = ErrBlockNotFound
           /\ last.ptr = nil

\* C5: bitmap invariant: for every (fl, sl), bit fl of flBitmap is 1 iff
\* slBitmap[fl] is non-zero, and bit sl of slBitmap[fl] is 1 iff
\* matrix[fl][sl] is not nil.
C5_BitmapInvariant ==
    ~fault =>
        \A c \in Classes :
            /\ (c[1] \in flBitmap) <=> (slBitmap[c[1]] # {})
            /\ (c[2] \in slBitmap[c[1]]) <=> (MatrixAt(T, c[1], c[2]) # nil)

\* C6: every block of the region whose FREE flag is set is a member of
\* exactly one free list: it is reachable from exactly one matrix head by
\* following the next links.
C6_FreeBlockInExactlyOneList ==
    ~fault => \A b \in FreeInRegion : Cardinality(ListsHolding(b)) = 1

\* C7: every block reachable from matrix[fl][sl] has its FREE flag set and
\* determineLevels(its size) = (fl, sl).
C7_ListedBlocksAreFreeAndOfTheClass ==
    ~fault =>
        \A c \in Classes : \A b \in ListOf(c[1], c[2]) :
            /\ isFree(T, b)
            /\ determineLevels(getBlockSize(T, b)) = [fl |-> c[1], sl |-> c[2]]

\* C8: for every pair of physically adjacent blocks (a, b), the sentinel
\* included, b.prevHeader points at the header of a.
C8_PrevHeaderOfSuccessor ==
    ~fault => \A pr \in AdjacentPairs : Rd(T, prevHeaderAt(pr[2])) = pr[1]

\* C9: for every pair of physically adjacent blocks (a, b), the
\* PreviousBlockFree flag of b is set exactly when a is free.
C9_PrevFreeFlagOfSuccessor ==
    ~fault =>
        \A pr \in AdjacentPairs :
            isPreviousBlockFree(T, pr[2]) <=> isFree(T, pr[1])

\* C10: the blocks tile the region: stepping from the header at the region
\* base to payload pointer + size ends exactly at the sentinel, and the sum
\* of (size + 16) over the blocks before it is initial block size + 16.
C10_BlocksTileRegion ==
    ~fault =>
        /\ ChainEnd = SentinelAddr
        /\ FootprintSum({PhysBlocks[i] : i \in 1..Len(PhysBlocks)})
              = InitialBlockSize + BlockHeaderSize

\* C11: eager coalescing: in every state between operations no two
\* physically adjacent blocks both have the FREE flag set (Free merges the
\* freed block with a free successor and a free predecessor before it
\* inserts it).
C11_NoAdjacentFreeBlocks ==
    ~fault =>
        \A pr \in AdjacentPairs : ~(isFree(T, pr[1]) /\ isFree(T, pr[2]))

\* C12: every free block has a payload of at least MinBlockSize = 16 bytes:
\* Allocate splits only when the remainder is at least 32 bytes.
C12_FreeBlocksHaveRoomForLinks ==
    ~fault => \A b \in FreeInRegion : getBlockSize(T, b) >= MinBlockSize

\* ------------------------------------------------------------------------
\* The constructor on its own: NewArena over a range of region lengths
\* ------------------------------------------------------------------------
\* the lengths 48 .. MaxSmallArena are all tried
MaxSmallArena == 120

\* 1 GiB plus the two headers: the initial block is 2^30 bytes
GiBArena == Pow2(MaxFLI) + 2 * BlockHeaderSize

NewArenaSizes ==
    (48 .. MaxSmallArena) \cup {176, 4096, 32768, GiBArena}

\* the zeroed region of n bytes, before step 2 of NewArena
InitNewArena ==
    LET Start(t) ==
            /\ mem = t.mem
            /\ allocationBytes = t.len
            /\ head = t.head
            /\ flBitmap = t.flBitmap
            /\ slBitmap = t.slBitmap
            /\ matrix = t.matrix
            /\ usedSize = t.usedSize
            /\ fault = t.fault
            /\ live = << >>
            /\ stores = 0
            /\ ops = 0
            /\ phase = "constructing"
            /\ last = [op |-> "MakeSlice", arg |-> t.len, ptr |-> nil,
                       err |-> NoError, req |-> NoBlock, taken |-> NoBlock]
    IN  \E n \in NewArenaSizes : Start(EmptyArena(n))

NewArenaOp ==
    /\ phase = "constructing"
    /\ Install(NewArena(allocationBytes))
    /\ phase' = "constructed"
    /\ ops' = ops + 1
    /\ last' = [op |-> "NewArena", arg |-> allocationBytes, ptr |-> nil,
                err |-> NoError, req |-> NoBlock, taken |-> NoBlock]
    /\ UNCHANGED <<live, stores>>

SpecNewArena == InitNewArena /\ [][NewArenaOp]_vars

\* C13: for every n >= 48, NewArena(n) completes and yields one free block
\* at the region base of size roundDown(n - 32), the only entry of the
\* matrix, at class determineLevels(that size) with exactly that bit set in
\* each bitmap; a zero-size sentinel right behind it marked USED | PREV_FREE
\* whose prevHeader is the initial block; and usedSize = n - initial size.
C13_NewArenaPostcondition ==
    last.op = "NewArena" =>
        LET lv == determineLevels(InitialBlockSize)
        IN  /\ ~fault
            /\ Rd(T, blockSizeAt(head))
                  = BitOr(InitialBlockSize, BitOr(PreviousBlockUsed, FreeBlock))
            /\ DOMAIN matrix = {<<lv.fl, lv.sl>>}
            /\ ListOf(lv.fl, lv.sl) = {head}
            /\ Rd(T, prevAt(head)) = nil
            /\ flBitmap = {lv.fl}
            /\ \A fl \in FLRange :
                   slBitmap[fl] = IF fl = lv.fl THEN {lv.sl} ELSE {}
            /\ Rd(T, blockSizeAt(SentinelAddr))
                  = BitOr(PreviousBlockFree, UsedBlock)
            /\ Rd(T, prevHeaderAt(SentinelAddr)) = head
            /\ usedSize = allocationBytes - InitialBlockSize

\* C14: on a fresh arena of 32 * 1024 bytes, a single Allocate of (initial
\* block size - 16) succeeds, takes the whole initial block without leaving
\* a residue free block (the matrix is empty), and UsedSize() is the length
\* of the region.
C14_NoSplitBoundary ==
    (allocationBytes = 32 * 1024 /\ ops = 1 /\ last.op = "Allocate"
        /\ last.arg = InitialBlockSize - BlockHeaderSize) =>
        /\ ~fault
        /\ last.err = NoError
        /\ last.ptr = getPtr(head)
        /\ PhysBlocks = <<head>>
        /\ ~isFree(T, head)
        /\ DOMAIN matrix = {}
        /\ usedSize = allocationBytes

\* the blocks linked behind h through next in the state t, h included
RECURSIVE ListIn(_, _, _)
ListIn(t, h, seen) ==
    IF h = nil \/ h \in seen \/ ~Valid(t, nextAt(h)) THEN seen
    ELSE ListIn(t, Rd(t, nextAt(h)), seen \cup {h})

\* C15: insertBlock(b, fl, sl) pushes b at the head of its list: afterwards
\* matrix[fl][sl] = b, b.next is the previous head, b.prev is nil, the
\* previous head's prev is b, every block that was in the list is still
\* reachable from the head through next, and bits fl and sl are set.
\* Stated on the insertBlock call that ends every Free.
C15_InsertBlockPushesAtHead ==
    [][(ops' = ops + 1 /\ last'.op = "Free" /\ ~fault') =>
          LET m   == FreeBeforeInsert(T, last'.arg)
              lv  == determineLevels(getBlockSize(m.t, m.b))
              old == MatrixAt(m.t, lv.fl, lv.sl)
          IN  /\ MatrixAt(T', lv.fl, lv.sl) = m.b
              /\ Rd(T', nextAt(m.b)) = old
              /\ Rd(T', prevAt(m.b)) = nil
              /\ old # nil => Rd(T', prevAt(old)) = m.b
              /\ ListIn(m.t, old, {}) \subseteq ListIn(T', m.b, {})
              /\ lv.fl \in flBitmap'
              /\ lv.sl \in slBitmap'[lv.fl]
      ]_vars

\* C16: extractBlock(b, fl, sl), called on a block b of list (fl, sl) whose
\* bits are set, removes b and keeps every other block of the list linked;
\* afterwards bit sl of slBitmap[fl] is set exactly when the list is not
\* empty and bit fl of flBitmap is set exactly when slBitmap[fl] is not
\* zero (the conditions of extractBlockHdr).
C16_ExtractBlockUpdatesBitmaps ==
    ~fault =>
        \A c \in DOMAIN matrix : \A b \in ListOf(c[1], c[2]) :
            (c[1] \in flBitmap /\ c[2] \in slBitmap[c[1]]) =>
                LET u == extractBlock(T, b, c[1], c[2])
                IN  /\ ~u.fault
                    /\ ListIn(u, MatrixAt(u, c[1], c[2]), {})
                          = ListOf(c[1], c[2]) \ {b}
                    /\ (c[2] \in u.slBitmap[c[1]])
                          <=> (MatrixAt(u, c[1], c[2]) # nil)
                    /\ (c[1] \in u.flBitmap) <=> (u.slBitmap[c[1]] # {})

\* C17: in Free(p) the neighbour header nb that is inspected to decide
\* coalescing is the physical successor of the freed block, at header base
\* + 16 + size (the address Allocate uses), and it does not lie inside the
\* freed block's own payload.
C17_FreeInspectsPhysicalSuccessor ==
    ~fault =>
        \A p \in DOMAIN live :
            LET b == p - BlockHeaderSize
            IN  /\ NeighbourOf(T, b) = NextPhysical(b)
                /\ ~(p <= NeighbourOf(T, b)
                       /\ NeighbourOf(T, b) < p + getBlockSize(T, b))

\* c is searched by findSuitableBlock(fl, sl): (fl, sl') with sl' >= sl, or
\* (fl', sl') with fl' > fl
Searched(c, fl, sl) == (c[1] = fl /\ c[2] >= sl) \/ c[1] > fl

\* c comes before d in the search order
Before(c, d) == c[1] < d[1] \/ (c[1] = d[1] /\ c[2] < d[2])

\* the classes Allocate searches from, for the sizes it is called with, and
\* the classes of the lists that are not empty
SearchStarts ==
    {<<RequestOf(n).fl, RequestOf(n).sl>> : n \in SizesFor(allocationBytes)}
        \cup DOMAIN matrix

\* C18: findSuitableBlock(fl, sl) returns the head of the first non-empty
\* list in the search order and sets fl, sl to that class; it returns nil
\* exactly when slBitmap[fl] has no bit at or above sl and flBitmap has no
\* bit above fl.
C18_FindSuitableBlock ==
    ~fault =>
        \A q \in SearchStarts :
            LET f        == findSuitableBlock(T, q[1], q[2])
                nonEmpty == {c \in DOMAIN matrix : Searched(c, q[1], q[2])}
                noBit    == /\ BitsFrom(slBitmap[q[1]], q[2]) = {}
                            /\ BitsFrom(flBitmap, q[1] + 1) = {}
            IN  /\ ~f.panic
                /\ (f.b = nil) <=> noBit
                /\ (f.b = nil) <=> (nonEmpty = {})
                /\ f.b # nil =>
                      /\ <<f.fl, f.sl>> \in nonEmpty
                      /\ f.b = MatrixAt(T, f.fl, f.sl)
                      /\ \A c \in nonEmpty : ~Before(c, <<f.fl, f.sl>>)

\* ------------------------------------------------------------------------
\* The size-class mapping on its own: determineLevels and
\* selectLevelsAndSize over a range of sizes
\* ------------------------------------------------------------------------
\* every multiple of 16 up to MaxLevelSize is tried
MaxLevelSize == 4096

\* the multiples of 16 up to MaxLevelSize, and around every power of two
\* and every last class start up to 1 << MaxFLI
LevelSizes ==
    {n \in 0 .. MaxLevelSize : n % 16 = 0}
      \cup {32720, 32736}
      \cup {n \in {Pow2(k) + d : k \in 13 .. MaxFLI, d \in {-16, 0, 16}} :
                n <= Pow2(MaxFLI)}
      \cup {Pow2(k) - Pow2(k - MaxLog2SLI - 1) + d :
                k \in 13 .. MaxFLI, d \in {0, 16}}

\* no arena is involved: a size has been chosen, nothing computed yet
InitLevels ==
    LET Start(t, n) ==
            /\ mem = t.mem
            /\ allocationBytes = t.len
            /\ head = t.head
            /\ flBitmap = t.flBitmap
            /\ slBitmap = t.slBitmap
            /\ matrix = t.matrix
            /\ usedSize = t.usedSize
            /\ fault = t.fault
            /\ live = << >>
            /\ stores = 0
            /\ ops = 0
            /\ phase = "levels"
            /\ last = [op |-> "size", arg |-> n, ptr |-> nil,
                       err |-> NoError, req |-> NoBlock, taken |-> NoBlock]
    IN  \E n \in LevelSizes : Start(EmptyArena(0), n)

determineLevelsOp ==
    /\ last.op = "size"
    /\ last' = [last EXCEPT
                  !.op  = "determineLevels",
                  !.req = [size |-> last.arg,
                           fl   |-> determineLevels(last.arg).fl,
                           sl   |-> determineLevels(last.arg).sl]]
    /\ ops' = ops + 1
    /\ UNCHANGED <<arenaVars, live, stores, phase>>

selectLevelsAndSizeOp ==
    /\ last.op = "size"
    /\ last' = [last EXCEPT
                  !.op  = "selectLevelsAndSize",
                  !.req = selectLevelsAndSize(last.arg)]
    /\ ops' = ops + 1
    /\ UNCHANGED <<arenaVars, live, stores, phase>>

NextLevels == determineLevelsOp \/ selectLevelsAndSizeOp

SpecLevels == InitLevels /\ [][NextLevels]_vars

\* the class of a size, as a pair
ClassOf(n) == <<determineLevels(n).fl, determineLevels(n).sl>>

\* C19: for every 16-byte-aligned size s >= 16 (up to 1 << MaxFLI),
\* selectLevelsAndSize(s) returns (s', fl, sl) where s' is the smallest
\* class start >= s, (fl, sl) = determineLevels(s'), s' is a multiple of 16,
\* s' = s for s in {64, 128, 256, 464, 512, 1024, 2048}, and every size of a
\* class at or above (fl, sl) is >= s.
C19_SelectLevelsRoundsToClassStart ==
    (last.op = "selectLevelsAndSize" /\ last.arg >= 16) =>
        LET s == last.arg
            r == last.req
        IN  /\ r.size >= s
            /\ r.size % 16 = 0
            /\ ClassOf(r.size) = <<r.fl, r.sl>>
            /\ ClassOf(r.size - 1) # ClassOf(r.size)
            /\ r.size # s =>
                  /\ ClassOf(s - 1) = ClassOf(s)
                  /\ ClassOf(r.size - 1) = ClassOf(s)
            /\ s \in {64, 128, 256, 464, 512, 1024, 2048} => r.size = s
            /\ \A x \in LevelSizes :
                  ~Before(ClassOf(x), <<r.fl, r.sl>>) => x >= s

\* selectLevelsAndSize has rounded a size up to the start of the next class
C19_Witness ==
    /\ last.op = "selectLevelsAndSize"
    /\ last.arg >= 16
    /\ last.req.size > last.arg

\* floor(log2 n) for n >= 1
Log2(n) == CHOOSE k \in 0 .. 30 : Pow2(k) <= n /\ n \div 2 < Pow2(k)

\* C20: determineLevels and selectLevelsAndSize are total on every multiple
\* of 16 from 0 to 1 << MaxFLI: each yields 0 <= fl < RealFLI and
\* 0 <= sl < MaxSLI, and determineLevels yields fl = 0, sl = size / 4 below
\* 128 and fl = msb(size) - 6, sl = (size >> (msb(size) - 5)) - 32 otherwise
\* (so (64) = (0,16), (128) = (1,0), (32736) = (8,31)).
C20_LevelsAreTotalAndInRange ==
    (last.op \in {"determineLevels", "selectLevelsAndSize"}
        /\ last.arg <= Pow2(MaxFLI)) =>
        /\ InMatrix(last.req.fl, last.req.sl)
        /\ last.op = "determineLevels" =>
              /\ last.arg < 128 =>
                    last.req.fl = 0 /\ last.req.sl = last.arg \div 4
              /\ last.arg >= 128 =>
                    /\ last.req.fl = Log2(last.arg) - 6
                    /\ last.req.sl
                          = (last.arg \div Pow2(Log2(last.arg) - 5)) - 32
              /\ last.arg = 64 => <<last.req.fl, last.req.sl>> = <<0, 16>>
              /\ last.arg = 128 => <<last.req.fl, last.req.sl>> = <<1, 0>>
              /\ last.arg = 32736 => <<last.req.fl, last.req.sl>> = <<8, 31>>

\* the byte ranges [a, a + n) and [c, c + m) have a byte in common
Overlap(a, n, c, m) == a < c + m /\ c < a + n

\* the payload of the live allocation p: its address and its length in bytes
PayloadSize(p) == getBlockSize(T, p - BlockHeaderSize)

\* C21: the payload ranges [p, p + block size) of the live allocations are
\* pairwise disjoint, lie inside the region before the sentinel, and hold
\* no header of any block and no prev/next link of a free block.
C21_LivePayloadsAreExclusive ==
    ~fault =>
        \A p \in DOMAIN live :
            /\ head + BlockHeaderSize <= p
            /\ p + PayloadSize(p) <= SentinelAddr
            /\ \A q \in DOMAIN live :
                  q # p => ~Overlap(p, PayloadSize(p), q, PayloadSize(q))
            /\ \A i \in 1 .. Len(PhysBlocks) :
                  ~Overlap(p, PayloadSize(p), PhysBlocks[i], BlockHeaderSize)
            /\ ~Overlap(p, PayloadSize(p), SentinelAddr, BlockHeaderSize)
            /\ \A f \in FreeInRegion :
                  ~Overlap(p, PayloadSize(p), prevAt(f), 16)

\* C22: if the region holds a block with the FREE flag set whose size is >=
\* the class-rounded request size of selectLevelsAndSize, Allocate does not
\* return ErrBlockNotFound: memory released by Free is available to a later
\* Allocate of the same size.
C22_FreeMemoryIsAllocatable ==
    [][(ops' = ops + 1 /\ last'.op = "Allocate"
            /\ \E b \in FreeInRegion : getBlockSize(T, b) >= last'.req.size)
          => last'.err # ErrBlockNotFound]_vars

\* C23: in every state after NewArena(n), 0 <= UsedSize() <= n.
C23_UsedSizeWithinRegion ==
    ~fault => 0 <= UsedSize(T) /\ UsedSize(T) <= allocationBytes

====
